---------------------------- MODULE Spec2Model ----------------------------
(***************************************************************************)
(* A model of remove_duplicates.py: the normaliser resolver                *)
(* (get_value_hash_function), the per-row key computation and dict update  *)
(* (track_row), the row loop and summary of remove_duplicates, and the     *)
(* part of main that writes the output file.                               *)
(*                                                                         *)
(* A string is a sequence of one-character strings.  A row is a function   *)
(* from the header's column names to field values, as csv.DictReader       *)
(* builds it.  A dict that is iterated (the criteria, tracked_rows) is a   *)
(* sequence of entries in insertion order.                                 *)
(***************************************************************************)
EXTENDS Integers, Sequences, FiniteSets, TLC

VARIABLES
    header,        \* the data file's first record: DictReader.fieldnames
    criteria,      \* the parsed specification, in key order
    consumed,      \* the rows the reader has yielded so far, in input order
    hashed,        \* the hashed_key track_row computed for each tracked row
    tracked_rows,  \* remove_duplicates' accumulator dict
    row_count,     \* remove_duplicates' row counter
    pc,            \* "reading", "returned", "done", "reran" or "failed"
    err,           \* the exception that ended the run, NoError otherwise
    reported,      \* the numbers of the printed summary line
    results,       \* what remove_duplicates returned
    output,        \* the rows main wrote to the output file
    written,       \* whether main wrote an output file
    second         \* the outcome of running remove_duplicates on `results`

vars == <<header, criteria, consumed, hashed, tracked_rows, row_count, pc, err,
          reported, results, output, written, second>>

(***************************************************************************)
(* Bounds.                                                                 *)
(***************************************************************************)
MaxRows == 3       \* rows read from the data file in one run
MaxLen == 2        \* length of the strings the normalisers are swept over

(***************************************************************************)
(* Program constants (lines 9-13).                                         *)
(***************************************************************************)
ATTRIBUTE_METHOD == "method"
METHOD_EXACT == "exact"
METHOD_EXACT_CASE_INSENSITIVE == "exact_case_insensitive"
METHOD_EXACT_LOWERCASE_ALPHANUMERIC == "exact_lower_alphanumeric"

(***************************************************************************)
(* Characters and the two library string operations the code uses.         *)
(***************************************************************************)
AsciiLower == {"a", "b", "c", "d"}
AsciiDigit == {"1", "2", "3"}

\* str.lower() on one character: cased letters map to their lowercase
\* form, ASCII or not; everything else is unchanged.
LowerChar(c) ==
    CASE c = "A" -> "a"
      [] c = "B" -> "b"
      [] c = "É" -> "é"
      [] OTHER -> c

\* x.lower()
StrLower(x) == [i \in 1..Len(x) |-> LowerChar(x[i])]

\* Whether one character matches the class [^a-z0-9].
MatchesNegClass(c) == c \notin (AsciiLower \cup AsciiDigit)

\* The longest prefix of s made of characters matching [^a-z0-9]: what the
\* greedy quantifier + consumes at the start of s.
RECURSIVE GreedyRun(_)
GreedyRun(s) ==
    IF s = <<>> \/ ~MatchesNegClass(Head(s)) THEN 0
    ELSE 1 + GreedyRun(Tail(s))

\* re.sub("[^a-z0-9]+", "", s): scan left to right, replace every leftmost
\* maximal match by the empty string, copy everything else.
RECURSIVE ReSubDelete(_)
ReSubDelete(s) ==
    IF s = <<>> THEN <<>>
    ELSE IF MatchesNegClass(Head(s))
         THEN ReSubDelete(SubSeq(s, GreedyRun(s) + 1, Len(s)))
         ELSE <<Head(s)>> \o ReSubDelete(Tail(s))

(***************************************************************************)
(* csv.DictReader.  A record is the list of fields of one line; the row    *)
(* is dict(zip(fieldnames, record)), and a record shorter than the header  *)
(* gets restval (None) for the fields it lacks.  Blank lines are skipped,  *)
(* so a record has at least one field.  RestVal stands for None.           *)
(***************************************************************************)
RestVal == <<"<None>">>

DictRow(fieldnames, record) ==
    [c \in {fieldnames[i] : i \in 1..Len(fieldnames)} |->
        LET i == CHOOSE j \in 1..Len(fieldnames) : fieldnames[j] = c
        IN  IF i <= Len(record) THEN record[i] ELSE RestVal]

(***************************************************************************)
(* Exceptions.  `column` is the specification column whose handling        *)
(* raised; `names` is what the message text identifies.                    *)
(***************************************************************************)
NoError == [type |-> "none", kind |-> "none", column |-> "", names |-> ""]

Raise(type, kind, names) ==
    [type |-> type, kind |-> kind, column |-> "", names |-> names]

(***************************************************************************)
(* get_value_hash_function (lines 44-65).  The lambdas are named by tags   *)
(* and applied by ApplyFn.                                                 *)
(***************************************************************************)
\* Variant: a method name that is not recognised falls back to the identity.
GetValueHashFunctionLenient(method_and_params) ==
    IF ATTRIBUTE_METHOD \in DOMAIN method_and_params
    THEN LET method == method_and_params[ATTRIBUTE_METHOD] IN
         IF method = METHOD_EXACT_CASE_INSENSITIVE
         THEN [raised |-> FALSE, fn |-> "lower", exc |-> NoError]
         ELSE IF method = METHOD_EXACT_LOWERCASE_ALPHANUMERIC
         THEN [raised |-> FALSE, fn |-> "lower_alnum", exc |-> NoError]
         ELSE [raised |-> FALSE, fn |-> "identity", exc |-> NoError]
    ELSE [raised |-> TRUE, fn |-> "",
          exc |-> Raise("KeyError", "MissingAttribute", ATTRIBUTE_METHOD)]

GetValueHashFunction(method_and_params) ==
    IF ATTRIBUTE_METHOD \in DOMAIN method_and_params
    THEN LET method == method_and_params[ATTRIBUTE_METHOD] IN
         IF method = METHOD_EXACT
         THEN [raised |-> FALSE, fn |-> "identity", exc |-> NoError]
         ELSE IF method = METHOD_EXACT_CASE_INSENSITIVE
         THEN [raised |-> FALSE, fn |-> "lower", exc |-> NoError]
         ELSE IF method = METHOD_EXACT_LOWERCASE_ALPHANUMERIC
         THEN [raised |-> FALSE, fn |-> "lower_alnum", exc |-> NoError]
         ELSE [raised |-> TRUE, fn |-> "",
               exc |-> Raise("ValueError", "UnrecognizedMethod", method)]
    ELSE [raised |-> TRUE, fn |-> "",
          exc |-> Raise("KeyError", "MissingAttribute", ATTRIBUTE_METHOD)]

\* lambda x: x
Exact(x) == x

\* lambda x: x.lower()
ExactCaseInsensitive(x) == StrLower(x)

\* Variant: the substitution runs on the raw value, the lowercasing after.
ExactLowerAlphanumericStripsFirst(x) == StrLower(ReSubDelete(x))

\* lambda x: re.sub("[^a-z0-9]+", "", x.lower())
ExactLowerAlphanumeric(x) == ReSubDelete(StrLower(x))

\* value_hash_functions[i](row[column_key]) followed by hashed_key += ...
\* On None, the identity returns None and the += raises TypeError; the two
\* others call None.lower() and raise AttributeError.
ApplyFn(fn, x) ==
    IF x = RestVal
    THEN [raised |-> TRUE, val |-> <<>>,
          exc |-> IF fn = "identity"
                  THEN Raise("TypeError", "NoneValue", "")
                  ELSE Raise("AttributeError", "NoneValue", "")]
    ELSE [raised |-> FALSE, exc |-> NoError,
          val |-> CASE fn = "identity" -> Exact(x)
                    [] fn = "lower" -> ExactCaseInsensitive(x)
                    [] fn = "lower_alnum" -> ExactLowerAlphanumeric(x)]

(***************************************************************************)
(* The list comprehension of lines 36-37: resolve every column's           *)
(* descriptor in key order; the first raise ends it.                       *)
(***************************************************************************)
RECURSIVE ResolveFrom(_, _, _)
ResolveFrom(crit, i, acc) ==
    IF i > Len(crit) THEN [raised |-> FALSE, fns |-> acc, exc |-> NoError]
    ELSE LET r == GetValueHashFunction(crit[i].descriptor) IN
         IF r.raised
         THEN [raised |-> TRUE, fns |-> <<>>,
               exc |-> [r.exc EXCEPT !.column = crit[i].column]]
         ELSE ResolveFrom(crit, i + 1, Append(acc, r.fn))

ResolveAll(crit) == ResolveFrom(crit, 1, <<>>)

\* criteria.keys()
Keys(crit) == [i \in 1..Len(crit) |-> crit[i].column]

(***************************************************************************)
(* Python dict operations on an insertion-ordered dict.                    *)
(***************************************************************************)
\* Variant: an existing key keeps the row it has (first write wins).
DictAssignKeepFirst(d, k, v) ==
    IF \E i \in 1..Len(d) : d[i].key = k THEN d
    ELSE Append(d, [key |-> k, row |-> v])

\* Variant: the name is rebound to a fresh one-entry dict.
DictAssignRebind(d, k, v) == <<[key |-> k, row |-> v]>>

\* Variant: an overwritten key is deleted and inserted again, at the end.
DictAssignMoveToEnd(d, k, v) ==
    Append(SelectSeq(d, LAMBDA e : e.key # k), [key |-> k, row |-> v])

\* d[k] = v: an existing key keeps its position, a new key goes last.
DictAssign(d, k, v) ==
    IF \E i \in 1..Len(d) : d[i].key = k
    THEN [i \in 1..Len(d) |->
            IF d[i].key = k THEN [key |-> k, row |-> v] ELSE d[i]]
    ELSE Append(d, [key |-> k, row |-> v])

\* d.values()
DictValues(d) == [i \in 1..Len(d) |-> d[i].row]

(***************************************************************************)
(* track_row (lines 68-86).                                                *)
(***************************************************************************)
\* Variant: the values are joined with a separator.
AppendToKeySeparated(hashed_key, value) == hashed_key \o <<"|">> \o value

\* hashed_key += <the normalised value> (line 80)
AppendToKey(hashed_key, value) == hashed_key \o value

RECURSIVE HashedKeyFrom(_, _, _, _, _)
HashedKeyFrom(row, column_keys, value_hash_functions, i, hashed_key) ==
    IF i > Len(column_keys)
    THEN [raised |-> FALSE, key |-> hashed_key, exc |-> NoError]
    ELSE LET column_key == column_keys[i] IN
         IF column_key \in DOMAIN row
         THEN LET h == ApplyFn(value_hash_functions[i], row[column_key]) IN
              IF h.raised
              THEN [raised |-> TRUE, key |-> <<>>,
                    exc |-> [h.exc EXCEPT !.column = column_key]]
              ELSE HashedKeyFrom(row, column_keys, value_hash_functions,
                                 i + 1, AppendToKey(hashed_key, h.val))
         ELSE [raised |-> TRUE, key |-> <<>>,
               exc |-> [Raise("KeyError", "MissingColumn", column_key)
                           EXCEPT !.column = column_key]]

TrackRow(row, column_keys, value_hash_functions, unique_rows) ==
    LET k == HashedKeyFrom(row, column_keys, value_hash_functions, 1, <<>>) IN
    IF k.raised
    THEN [raised |-> TRUE, rows |-> unique_rows, exc |-> k.exc, key |-> <<>>]
    ELSE [raised |-> FALSE, exc |-> NoError, key |-> k.key,
          rows |-> DictAssign(unique_rows, k.key, row)]

\* Variant: a row that track_row rejects is skipped, and the loop goes on.
LoopBodySkipsRejectedRow(st, row, crit) ==
    LET vhfs == ResolveAll(crit) IN
    IF vhfs.raised
    THEN [tracked_rows |-> st.tracked_rows, row_count |-> st.row_count + 1,
          exc |-> vhfs.exc, hashed_key |-> <<>>]
    ELSE LET t == TrackRow(row, Keys(crit), vhfs.fns, st.tracked_rows) IN
         [tracked_rows |-> t.rows, row_count |-> st.row_count + 1,
          exc |-> NoError, hashed_key |-> t.key]

\* Variant: each column's function is resolved when track_row reaches the
\* column, after the column was looked up in the row.
RECURSIVE LazyKeyFrom(_, _, _, _)
LazyKeyFrom(row, crit, i, hashed_key) ==
    IF i > Len(crit)
    THEN [raised |-> FALSE, key |-> hashed_key, exc |-> NoError]
    ELSE LET column_key == crit[i].column IN
         IF column_key \notin DOMAIN row
         THEN [raised |-> TRUE, key |-> <<>>,
               exc |-> [Raise("KeyError", "MissingColumn", column_key)
                           EXCEPT !.column = column_key]]
         ELSE LET r == GetValueHashFunction(crit[i].descriptor) IN
              IF r.raised
              THEN [raised |-> TRUE, key |-> <<>>,
                    exc |-> [r.exc EXCEPT !.column = column_key]]
              ELSE LET h == ApplyFn(r.fn, row[column_key]) IN
                   IF h.raised
                   THEN [raised |-> TRUE, key |-> <<>>,
                         exc |-> [h.exc EXCEPT !.column = column_key]]
                   ELSE LazyKeyFrom(row, crit, i + 1,
                                    AppendToKey(hashed_key, h.val))

LoopBodyResolvesLazily(st, row, crit) ==
    LET k == LazyKeyFrom(row, crit, 1, <<>>) IN
    [tracked_rows |-> IF k.raised THEN st.tracked_rows
                      ELSE DictAssign(st.tracked_rows, k.key, row),
     row_count |-> st.row_count + 1, exc |-> k.exc, hashed_key |-> k.key]

(***************************************************************************)
(* The body of the loop of remove_duplicates (lines 35-38) on a loop       *)
(* state st = [tracked_rows, row_count, exc, hashed_key]; hashed_key is    *)
(* the key track_row computed for the row.                                 *)
(***************************************************************************)
LoopBody(st, row, crit) ==
    LET vhfs == ResolveAll(crit) IN
    IF vhfs.raised
    THEN [tracked_rows |-> st.tracked_rows, row_count |-> st.row_count + 1,
          exc |-> vhfs.exc, hashed_key |-> <<>>]
    ELSE LET t == TrackRow(row, Keys(crit), vhfs.fns, st.tracked_rows) IN
         [tracked_rows |-> t.rows, row_count |-> st.row_count + 1,
          exc |-> t.exc, hashed_key |-> t.key]

\* Variant: the first row is taken for a header and never processed.
RECURSIVE RunLoopFrom(_, _, _)
RunLoopFrom(st, rows, crit) ==
    IF rows = <<>> \/ st.exc # NoError THEN st
    ELSE RunLoopFrom(LoopBody(st, Head(rows), crit), Tail(rows), crit)

RunLoopSkipsFirstRow(st, rows, crit) ==
    RunLoopFrom(st, IF rows = <<>> THEN rows ELSE Tail(rows), crit)

\* The loop of remove_duplicates (lines 34-38) on a known list of rows.
\* The whole of remove_duplicates (lines 30-41) on a known list of rows.
RECURSIVE RunLoop(_, _, _)
RunLoop(st, rows, crit) ==
    IF rows = <<>> \/ st.exc # NoError THEN st
    ELSE RunLoop(LoopBody(st, Head(rows), crit), Tail(rows), crit)

\* remove_duplicates (lines 30-41) on a known list of rows.
RemoveDuplicates(rows, crit) ==
    LET st == RunLoop([tracked_rows |-> <<>>, row_count |-> 0,
                       exc |-> NoError, hashed_key |-> <<>>], rows, crit) IN
    [failed |-> st.exc # NoError, exc |-> st.exc,
     removed |-> st.row_count - Len(st.tracked_rows),
     total |-> st.row_count,
     rows |-> IF st.exc = NoError THEN DictValues(st.tracked_rows) ELSE <<>>]

(***************************************************************************)
(* The inputs.                                                             *)
(***************************************************************************)
Columns == {"a", "b"}

\* The field contents the data file may hold in each column.
FieldValues(c) ==
    IF c = "a"
    THEN {<<"a">>, <<"A">>, <<"a", "-">>}
    ELSE {<<"3">>, <<"-", "3">>}

Headers == {<<"a", "b">>, <<"a">>}

\* The records a file with this header may hold: one to Len(h) fields.
Records(h) ==
    UNION {{r \in [1..n -> UNION {FieldValues(c) : c \in Columns}] :
               \A i \in 1..n : r[i] \in FieldValues(h[i])} : n \in 1..Len(h)}

NoMethod == [x \in {} |-> ""]
Descriptors ==
    {NoMethod} \cup
    {[x \in {ATTRIBUTE_METHOD} |-> m] :
        m \in {METHOD_EXACT, METHOD_EXACT_CASE_INSENSITIVE,
               METHOD_EXACT_LOWERCASE_ALPHANUMERIC, "fuzzy"}}

\* Specifications: zero to two columns, each named once, in either order.
Entry(c, d) == [column |-> c, descriptor |-> d]
Specifications ==
    {<<>>} \cup
    {<<Entry(c, d)>> : c \in Columns, d \in Descriptors} \cup
    {<<Entry(c, d), Entry(c2, d2)>> :
        c \in Columns, d \in Descriptors, c2 \in Columns, d2 \in Descriptors}

NoSecond == [failed |-> FALSE, exc |-> NoError, removed |-> 0, total |-> 0,
             rows |-> <<>>]

Init ==
    /\ header \in Headers
    /\ criteria \in {s \in Specifications :
                        \A i, j \in 1..Len(s) : i # j => s[i].column # s[j].column}
    /\ consumed = <<>>
    /\ hashed = <<>>
    /\ tracked_rows = <<>>
    /\ row_count = 0
    /\ pc = "reading"
    /\ err = NoError
    /\ reported = [removed |-> 0, total |-> 0]
    /\ results = <<>>
    /\ output = <<>>
    /\ written = FALSE
    /\ second = NoSecond

(***************************************************************************)
(* Actions.                                                                *)
(***************************************************************************)
\* One iteration of `for row in reader` (lines 34-38).
ProcessRow ==
    /\ pc = "reading"
    /\ row_count < MaxRows
    /\ \E record \in Records(header) :
         LET row == DictRow(header, record)
             st == LoopBody([tracked_rows |-> tracked_rows,
                             row_count |-> row_count, exc |-> NoError,
                             hashed_key |-> <<>>], row, criteria)
         IN  /\ consumed' = Append(consumed, row)
             /\ hashed' = IF st.exc = NoError
                          THEN Append(hashed, st.hashed_key) ELSE hashed
             /\ row_count' = st.row_count
             /\ tracked_rows' = st.tracked_rows
             /\ err' = st.exc
             /\ pc' = IF st.exc = NoError THEN "reading" ELSE "failed"
    /\ UNCHANGED <<header, criteria, reported, results, output, written, second>>

\* Variant: the summary reports the retained rows as the removed ones.
EndOfInputReportsRetained ==
    /\ pc = "reading"
    /\ reported' = [removed |-> Len(tracked_rows), total |-> row_count]
    /\ results' = DictValues(tracked_rows)
    /\ pc' = "returned"
    /\ UNCHANGED <<header, criteria, consumed, hashed, tracked_rows, row_count,
                   err, output, written, second>>

\* The reader is exhausted: print the summary and return (lines 39-41).
EndOfInput ==
    /\ pc = "reading"
    /\ reported' = [removed |-> row_count - Len(tracked_rows),
                    total |-> row_count]
    /\ results' = DictValues(tracked_rows)
    /\ pc' = "returned"
    /\ UNCHANGED <<header, criteria, consumed, hashed, tracked_rows, row_count,
                   err,
                   output, written, second>>

\* main writes the returned rows to the output file (lines 98-100).
WriteOutput ==
    /\ pc = "returned"
    /\ output' = results
    /\ written' = TRUE
    /\ pc' = "done"
    /\ UNCHANGED <<header, criteria, consumed, hashed, tracked_rows, row_count,
                   err,
                   reported, results, second>>

\* remove_duplicates is run again, with the same specification, on the rows
\* it returned.
RunAgain ==
    /\ pc = "returned"
    /\ second' = RemoveDuplicates(results, criteria)
    /\ pc' = "reran"
    /\ UNCHANGED <<header, criteria, consumed, hashed, tracked_rows, row_count,
                   err,
                   reported, results, output, written>>

Next == ProcessRow \/ EndOfInput \/ WriteOutput \/ RunAgain

Spec == Init /\ [][Next]_vars

(***************************************************************************)
(* Vocabulary of the properties.                                           *)
(***************************************************************************)
Finished == pc \in {"returned", "done", "reran"}

Range(f) == {f[i] : i \in DOMAIN f}

\* The last and the first input position whose row produced the key k.
LastWith(k) ==
    CHOOSE i \in 1..Len(hashed) :
        hashed[i] = k /\ \A j \in 1..Len(hashed) : hashed[j] = k => j <= i
FirstWith(k) ==
    CHOOSE i \in 1..Len(hashed) :
        hashed[i] = k /\ \A j \in 1..Len(hashed) : hashed[j] = k => j >= i

RecognisedMethods ==
    {METHOD_EXACT, METHOD_EXACT_CASE_INSENSITIVE,
     METHOD_EXACT_LOWERCASE_ALPHANUMERIC}

\* The descriptor of the i-th specification column is unusable.
InvalidAt(i) ==
    \/ ATTRIBUTE_METHOD \notin DOMAIN criteria[i].descriptor
    \/ criteria[i].descriptor[ATTRIBUTE_METHOD] \notin RecognisedMethods
SpecValid == \A i \in 1..Len(criteria) : ~InvalidAt(i)
MethodOf(i) == criteria[i].descriptor[ATTRIBUTE_METHOD]

\* The row lacks the i-th specification column / holds None there.
MissingAt(row, i) == criteria[i].column \notin DOMAIN row
NoneAt(row, i) == ~MissingAt(row, i) /\ row[criteria[i].column] = RestVal
LacksColumn(row) == \E i \in 1..Len(criteria) : MissingAt(row, i)

\* The least position of a non-empty set of positions.
Least(S) == CHOOSE i \in S : \A j \in S : i <= j

\* The normalisations as the specification words them.
IsLowerAlnum(c) == c \in AsciiLower \cup AsciiDigit
Stripped(s) == SelectSeq(StrLower(s), IsLowerAlnum)
NormalisedValue(i, row) ==
    LET v == row[criteria[i].column] IN
    CASE MethodOf(i) = METHOD_EXACT -> v
      [] MethodOf(i) = METHOD_EXACT_CASE_INSENSITIVE -> StrLower(v)
      [] MethodOf(i) = METHOD_EXACT_LOWERCASE_ALPHANUMERIC -> Stripped(v)
NormalisedTuple(row) == [i \in 1..Len(criteria) |-> NormalisedValue(i, row)]

RECURSIVE Concatenation(_)
Concatenation(parts) ==
    IF parts = <<>> THEN <<>> ELSE Head(parts) \o Concatenation(Tail(parts))

\* The strings the normalisers are swept over: every string of at most
\* MaxLen characters of SweepAlphabet, and the strings the specification
\* quotes.
SweepAlphabet == {"A", "a", "1", "-", " ", "É"}
QuotedStrings ==
    {<<"A", "B", "-", "1", "2", " ", "c", "d">>, <<"A", "-", "1">>,
     <<"a", "1">>, <<"A", "1", " ">>}
SweepStrings ==
    QuotedStrings \cup UNION {[1..n -> SweepAlphabet] : n \in 0..MaxLen}

NoUnintendedMerging ==
    Finished =>
        /\ \A i \in 1..Len(consumed) :
             (\A j \in 1..Len(consumed) : j # i => hashed[j] # hashed[i])
                 => consumed[i] \in Range(results)
        /\ Len(results) >= Cardinality(Range(hashed))

NoUnintendedMergingWitness ==
    /\ Finished
    /\ Len(consumed) = MaxRows
    /\ Cardinality(Range(hashed)) = MaxRows
    /\ Len(results) = MaxRows

(***************************************************************************)
(* C6: on success the reported total is the number of rows consumed, the   *)
(* number of retained rows is the number of distinct composite keys, and   *)
(* removed = total - retained, between 0 and total.                        *)
(***************************************************************************)
ReportedCounts ==
    Finished =>
        /\ reported.total = Len(consumed)
        /\ Len(results) = Cardinality(Range(hashed))
        /\ reported.removed = reported.total - Len(results)
        /\ reported.removed >= 0
        /\ reported.removed <= reported.total

\* The shape of the Alice / alice / Bob scenario: three rows, the first two
\* equal but for case, under exact_case_insensitive.
ReportedCountsWitness ==
    /\ Finished
    /\ Len(criteria) = 1 /\ criteria[1].column = "a"
    /\ ~InvalidAt(1) /\ MethodOf(1) = METHOD_EXACT_CASE_INSENSITIVE
    /\ Len(consumed) = 3
    /\ consumed[1]["a"] = <<"A">>
    /\ consumed[2]["a"] = <<"a">>
    /\ consumed[3]["a"] = <<"a", "-">>
    /\ reported = [removed |-> 1, total |-> 3]
    /\ results = <<consumed[2], consumed[3]>>

ConfigurationKinds == {"MissingAttribute", "UnrecognizedMethod"}

ConfigurationErrorAt(i) ==
    IF ATTRIBUTE_METHOD \notin DOMAIN criteria[i].descriptor
    THEN [type |-> "KeyError", kind |-> "MissingAttribute",
          column |-> criteria[i].column, names |-> ATTRIBUTE_METHOD]
    ELSE [type |-> "ValueError", kind |-> "UnrecognizedMethod",
          column |-> criteria[i].column,
          names |-> criteria[i].descriptor[ATTRIBUTE_METHOD]]

DataErrorAt(row, i) ==
    IF MissingAt(row, i)
    THEN [type |-> "KeyError", kind |-> "MissingColumn",
          column |-> criteria[i].column, names |-> criteria[i].column]
    ELSE [type |-> IF MethodOf(i) = METHOD_EXACT
                   THEN "TypeError" ELSE "AttributeError",
          kind |-> "NoneValue", column |-> criteria[i].column, names |-> ""]

InvalidPositions == {i \in 1..Len(criteria) : InvalidAt(i)}
UnusablePositions(row) ==
    {i \in 1..Len(criteria) : MissingAt(row, i) \/ NoneAt(row, i)}

ExpectedError(row) ==
    IF InvalidPositions # {}
    THEN ConfigurationErrorAt(Least(InvalidPositions))
    ELSE IF UnusablePositions(row) # {}
    THEN DataErrorAt(row, Least(UnusablePositions(row)))
    ELSE NoError

NothingProduced == ~written /\ output = <<>> /\ results = <<>>

(***************************************************************************)
(* C3, as claimed: if an input row lacks a specification column, the run   *)
(* fails with the MissingColumn KeyError naming a column the row lacks,    *)
(* and nothing is returned or written.                                     *)
(***************************************************************************)
MissingColumnAlwaysRaised ==
    \A n \in 1..Len(consumed) :
        LacksColumn(consumed[n]) =>
            /\ pc = "failed"
            /\ err.type = "KeyError" /\ err.kind = "MissingColumn"
            /\ \E i \in 1..Len(criteria) :
                 MissingAt(consumed[n], i) /\ err.names = criteria[i].column
            /\ NothingProduced

(***************************************************************************)
(* C3, amended: if an input row lacks a specification column, the run      *)
(* fails at that row and nothing is returned or written; the failure is    *)
(* the MissingColumn KeyError naming the first lacking column in           *)
(* specification order when every descriptor is valid and no earlier       *)
(* specification column of the row holds None; otherwise it is the         *)
(* configuration error, or the None value's TypeError / AttributeError.    *)
(***************************************************************************)
MissingColumnAborts ==
    \A n \in 1..Len(consumed) :
        LacksColumn(consumed[n]) =>
            LET row == consumed[n]
                first == Least({i \in 1..Len(criteria) : MissingAt(row, i)})
            IN  /\ pc = "failed"
                /\ n = Len(consumed) /\ row_count = n
                /\ NothingProduced
                /\ err = ExpectedError(row)
                /\ (SpecValid /\ \A i \in 1..(first - 1) : ~NoneAt(row, i))
                     => err = [type |-> "KeyError", kind |-> "MissingColumn",
                               column |-> criteria[first].column,
                               names |-> criteria[first].column]
                /\ ~SpecValid => err.kind \in ConfigurationKinds

\* A valid two-column specification whose second column the row lacks.
MissingColumnAbortsWitness ==
    /\ pc = "failed" /\ SpecValid
    /\ Len(criteria) = 2 /\ criteria[2].column = "b"
    /\ LacksColumn(consumed[Len(consumed)])
    /\ err.kind = "MissingColumn" /\ err.names = "b"
    /\ NothingProduced

(***************************************************************************)
(* C4, as claimed: with an unusable descriptor in the specification, a     *)
(* run over any row sequence, the empty one included, aborts with a        *)
(* configuration error and writes no output file.                          *)
(***************************************************************************)
InvalidSpecificationAlwaysAborts ==
    ~SpecValid =>
        /\ pc \in {"reading", "failed"}
        /\ pc = "failed" => err.kind \in ConfigurationKinds
        /\ ~written

(***************************************************************************)
(* C4, amended: with an unusable descriptor in the specification, a run    *)
(* over at least one row aborts at the first row with the configuration    *)
(* error of the first unusable descriptor in specification order, and      *)
(* writes no output file; over zero rows nothing is resolved and nothing   *)
(* is raised.                                                              *)
(***************************************************************************)
InvalidSpecificationAbortsOnFirstRow ==
    ~SpecValid =>
        IF consumed = <<>>
        THEN err = NoError /\ pc # "failed"
        ELSE /\ pc = "failed"
             /\ Len(consumed) = 1 /\ row_count = 1
             /\ err = ConfigurationErrorAt(Least(InvalidPositions))
             /\ NothingProduced

\* The second descriptor is the unusable one, and the row is also unusable.
InvalidSpecificationAbortsWitness ==
    /\ pc = "failed"
    /\ Len(criteria) = 2 /\ ~InvalidAt(1) /\ InvalidAt(2)
    /\ err.kind = "UnrecognizedMethod" /\ err.column = criteria[2].column
    /\ UnusablePositions(consumed[1]) # {}

(***************************************************************************)
(* C8, as claimed: the failure raised belongs to the first offending row   *)
(* and, within it, to the first offending column in specification order,   *)
(* the offence being a missing column or an unusable descriptor.           *)
(***************************************************************************)
Offences(row) == {i \in 1..Len(criteria) : MissingAt(row, i) \/ InvalidAt(i)}

FirstOffendingColumnRaised ==
    (pc = "failed" /\ err.kind \in ConfigurationKinds \cup {"MissingColumn"}) =>
        LET row == consumed[Len(consumed)] IN
        /\ \A n \in 1..(Len(consumed) - 1) : Offences(consumed[n]) = {}
        /\ Offences(row) # {}
        /\ err.column = criteria[Least(Offences(row))].column
        /\ row_count = Len(consumed)

(***************************************************************************)
(* C8, amended: the failure raised belongs to the first offending row;     *)
(* within that row the first unusable descriptor in specification order    *)
(* is raised before any column of the row is looked at, and only when      *)
(* every descriptor is valid is it the first column in specification       *)
(* order that the row lacks or holds None in.  It is raised at that row,   *)
(* no later row is consumed and nothing runs after it.                     *)
(***************************************************************************)
FailureOrder ==
    /\ pc # "failed" =>
         /\ err = NoError
         /\ \A n \in 1..Len(consumed) : ExpectedError(consumed[n]) = NoError
    /\ pc = "failed" =>
         /\ consumed # <<>>
         /\ \A n \in 1..(Len(consumed) - 1) :
              ExpectedError(consumed[n]) = NoError
         /\ err = ExpectedError(consumed[Len(consumed)])
         /\ err # NoError
         /\ row_count = Len(consumed)
         /\ NothingProduced
         /\ ~ENABLED ProcessRow /\ ~ENABLED EndOfInput

\* The configuration error of a later column is raised although an earlier
\* specification column is missing from the row.
FailureOrderWitness ==
    /\ pc = "failed"
    /\ err.kind \in ConfigurationKinds
    /\ Len(criteria) = 2 /\ err.column = criteria[2].column
    /\ MissingAt(consumed[Len(consumed)], 1)

(***************************************************************************)
(* C5: running remove_duplicates again, with the same specification, on    *)
(* the rows it returned removes nothing.                                   *)
(***************************************************************************)
Idempotent ==
    pc = "reran" =>
        /\ ~second.failed
        /\ second.total = Len(results)
        /\ Len(second.rows) = Len(results)
        /\ second.removed = 0

IdempotentWitness ==
    /\ pc = "reran"
    /\ reported.removed >= 1
    /\ Len(results) >= 2
    /\ Len(second.rows) = Len(results)

(***************************************************************************)
(* C7: the exact_lower_alphanumeric function returns the lowercased        *)
(* string with every character other than an ASCII lowercase letter or     *)
(* digit deleted; rows that differ only that way in such a column get one  *)
(* composite key and collapse to the last of them.                         *)
(***************************************************************************)
StripsEverySweptString ==
    /\ \A s \in SweepStrings : ExactLowerAlphanumeric(s) = Stripped(s)
    /\ ExactLowerAlphanumeric(<<"A", "B", "-", "1", "2", " ", "c", "d">>)
          = <<"a", "b", "1", "2", "c", "d">>

\* Rows r1 and r2 agree on every specification column but the c-th, where
\* their values are equal once stripped.
DifferOnlyByStripped(r1, r2, c) ==
    /\ Stripped(r1[criteria[c].column]) = Stripped(r2[criteria[c].column])
    /\ \A d \in 1..Len(criteria) :
         d # c => r1[criteria[d].column] = r2[criteria[d].column]

=============================================================================
